---- MODULE Spec2Model ----
(***************************************************************************)
(* Shelflet (src/shelflet.py): a shelve-backed object mapper.              *)
(*                                                                         *)
(* The module models the field validators, the process-wide AutoField      *)
(* counter, Model.__init__/to_dict/_from_dict/save/delete/open/all/where/  *)
(* get_by_id, and an application that constructs records, assigns          *)
(* attributes, saves, deletes and fetches them.                            *)
(*                                                                         *)
(* The schema is the one of the repository's tests: User, Group and        *)
(* Message of src/tests/test.py and AllFixesModel of                       *)
(* src/tests/test_all_fixes.py (its optional temporal fields are never     *)
(* supplied here and are left out of the records), and DateTimeModel of    *)
(* src/tests/test_datetime.py (of its three temporal fields, which are     *)
(* validated and converted alike, event_date).                             *)
(***************************************************************************)
EXTENDS Integers, Sequences, FiniteSets, TLC

\* ------------------------------------------------------------------ bounds
\* How many record ids of each model the application uses (uuid4 strings in the
\* code), in each specification.
Items == 2
RelUsers == 2
RelGroups == 1
RelMessages == 1
PlainItems == 1
\* The counter is unbounded in Python; allocations stop at this value.
MaxCounter == 2
\* Largest AutoField value the application supplies itself.
MaxSupplied == 1
\* How many DateTimeModel records the application uses, and how many days.
DatedItems == 2
MaxDay == 2
\* How many users, groups and messages the application uses where it deletes users
\* that groups list and messages refer to.
DelUsers == 1
DelGroups == 1
DelMessages == 2
\* How many records with a unique name the application exports and imports.
ImpItems == 2
\* Largest limit and offset given to all().
MaxLimit == 2
MaxOffset == 2

\* ----------------------------------------------------------- Python values
None == [ty |-> "None"]
Str(s) == [ty |-> "str", v |-> s]
Num(n) == [ty |-> "int", v |-> n]
\* A str that holds a record id.
IdStr(i) == [ty |-> "id", v |-> i]
\* A live reference to a record object; v is the object's id.
Ref(i) == [ty |-> "obj", v |-> i]
List(q) == [ty |-> "list", v |-> q]
\* A datetime.date: day d of the calendar.
Date(d) == [ty |-> "date", v |-> d]

\* date.isoformat and date.fromisoformat: the text of day d, and the day a text
\* stands for (0: the text is not an ISO date, ValueError).
IsoText == <<"2024-01-01", "2024-01-02", "2024-01-03", "2024-01-04">>
IsoFormat(d) == IsoText[d]
FromIsoFormat(text) ==
    IF \E d \in 1..Len(IsoText) : IsoText[d] = text
    THEN CHOOSE d \in 1..Len(IsoText) : IsoText[d] = text
    ELSE 0

IsNone(x) == x.ty = "None"
\* Python ==, on the values above (references compare by identity elsewhere).
PyEq(a, b) == a.ty = b.ty /\ (a.ty = "None" \/ a.v = b.v)

\* ------------------------------------------------------------------ schema
\* Model.__subclasses__(), in definition order.
Models == <<"User", "Group", "Message", "AllFixesModel", "DateTimeModel">>
ModelSet == {Models[k] : k \in 1..Len(Models)}

Field(kind, required, unique) ==
    [kind |-> kind, required |-> required, unique |-> unique, null |-> FALSE,
     model_class |-> "", on_delete |-> "", default |-> None]

CharField(required, unique) == Field("Char", required, unique)

\* DateField without min_value and max_value.
DateField(required) == Field("Date", required, FALSE)

\* AutoField.__init__: required=True.
AutoField == Field("Auto", TRUE, FALSE)

ForeignKey(model_class, required, null, on_delete) ==
    [Field("FK", required, FALSE) EXCEPT !.model_class = model_class, !.null = null,
                                         !.on_delete = on_delete]

\* ManyToManyField.__init__: required=False.
ManyToManyField(model_class) ==
    [Field("M2M", FALSE, FALSE) EXCEPT !.model_class = model_class]

\* cls._fields, in declaration order: a sequence of <<name, field>>.
Fields(m) ==
    CASE m = "User" -> << <<"name", CharField(TRUE, FALSE)>> >>
      [] m = "Group" -> << <<"name", CharField(TRUE, FALSE)>>,
                           <<"members", ManyToManyField("User")>> >>
      [] m = "Message" -> << <<"user", ForeignKey("User", FALSE, FALSE, "cascade")>>,
                             <<"content", CharField(TRUE, FALSE)>> >>
      [] m = "AllFixesModel" -> << <<"name", CharField(TRUE, TRUE)>>,
                                   <<"auto_field", AutoField>> >>
      [] m = "DateTimeModel" -> << <<"name", CharField(TRUE, FALSE)>>,
                                   <<"event_date", DateField(FALSE)>> >>

FieldNames(m) == {Fields(m)[k][1] : k \in 1..Len(Fields(m))}
FieldOf(m, f) == (CHOOSE k \in 1..Len(Fields(m)) : Fields(m)[k][1] = f)

\* ------------------------------------------------------------- identifiers
\* A record id is <<model, k>>; the code uses uuid4 strings or supplied ids.
IdsOf(m, n) == {<<m, k>> : k \in 1..n}
ModelOf(id) == id[1]

\* The iteration order of a store or a cache (the dbm file's, or the dict's): taken
\* to be by record number.
RECURSIVE IdSeq(_)
IdSeq(S) ==
    IF S = {} THEN <<>>
    ELSE LET first == CHOOSE i \in S : \A j \in S : i[2] <= j[2]
         IN <<first>> \o IdSeq(S \ {first})

\* ------------------------------------------------------------------- state
VARIABLES
    store,                \* store[m]: the shelve file of model m, id -> snapshot
    cache_on,             \* cache_on[m]: m._index_cache is not None
    cache,                \* cache[m]: m._index_cache, id -> cached object
    obj,                  \* the application's record objects, by id
    counter,              \* AutoField._counter
    counter_initialized,  \* AutoField._counter_initialized
    counter_file,         \* the integer in autofield_counter.dat, or NoFile
    disk_ok,              \* whether writing the counter file succeeds
    json_file,            \* the file export_json wrote, or NoJson
    last,                 \* the operation just completed and its outcome
    hist                  \* what the AutoField allocations returned so far

vars == <<store, cache_on, cache, obj, counter, counter_initialized, counter_file,
          disk_ok, json_file, last, hist>>

NoFile == -1

\* The exported file: the model exported, whether the file holds the JSON text (the
\* file is opened for writing before the rows are computed), its rows, and the
\* stores as they were when it was written.
NoJson == [m |-> "", complete |-> FALSE, rows |-> <<>>, at_export |-> <<>>]

\* The part of the state the library's functions read and write; log lists, in
\* order, the store entries the call at hand has written and removed, calls the
\* records whose delete() it has entered.
World ==
    [store |-> store, cache_on |-> cache_on, cache |-> cache, obj |-> obj,
     counter |-> counter, inited |-> counter_initialized, file |-> counter_file,
     disk_ok |-> disk_ok, json |-> json_file, log |-> <<>>, calls |-> <<>>]

\* A call's outcome: the state it leaves, the exception it raised and its value.
Ret(w, val) == [w |-> w, err |-> "ok", val |-> val]
Raise(w, e) == [w |-> w, err |-> e, val |-> None]

\* A cache entry is the application's own object (alias) or an object the cache
\* alone holds.
Alias == [alias |-> TRUE]
Held(o) == [alias |-> FALSE, o |-> o]
CachedObj(w, id) ==
    LET e == w.cache[ModelOf(id)][id] IN IF e.alias THEN w.obj[id] ELSE e.o

\* `if cls._index_cache:` -- an empty dict is false.
CacheTruthy(w, m) == w.cache_on[m] /\ DOMAIN w.cache[m] # {}

Max(a, b) == IF a >= b THEN a ELSE b

\* local = e; ...: the rest of a function body, F, run on the value of e (e is
\* computed once).
Let(e, F(_)) == CHOOSE y \in {F(x) : x \in {e}} : TRUE

\* ------------------------------------------------- AutoField, the validators
RECURSIVE InitializeCounter(_), Validate(_, _, _), InitFields(_, _, _, _, _)
RECURSIVE FromFields(_, _, _, _, _), ResolveEach(_, _, _, _), GetById(_, _)
RECURSIVE LoadEach(_, _, _, _), ScanFields(_, _, _), ScanModels(_, _)

\* A _save_counter that writes nothing.
SaveCounterSkipped(w) == w

\* AutoField._save_counter: a failed write is swallowed.
SaveCounter(w) == IF w.disk_ok THEN [w EXCEPT !.file = w.counter] ELSE w

\* A get_default that hands out the counter without advancing it.
GetDefaultWithoutIncrement(w) ==
    Let(SaveCounter(InitializeCounter(w)), LAMBDA w1 : Ret(w1, Num(w1.counter)))

\* AutoField.get_default
GetDefault(w) ==
    Let(InitializeCounter(w), LAMBDA w1 :
        Let(SaveCounter([w1 EXCEPT !.counter = @ + 1]), LAMBDA w3 :
            Ret(w3, Num(w3.counter))))

\* A Field.validate without the required check.
FieldValidateWithoutRequired(fs, value) == "ok"

\* Field.validate: the one check of the base class.
FieldValidate(fs, value) ==
    IF fs.required /\ IsNone(value) THEN "MissingRequiredField" ELSE "ok"

\* AutoField.validate
AutoFieldValidate(w, value) ==
    IF IsNone(value) THEN GetDefault(w)
    ELSE IF value.ty # "int" THEN Raise(w, "TypeMismatch")
    ELSE IF value.v > w.counter
         THEN Ret(SaveCounter([w EXCEPT !.counter = value.v]), value)
         ELSE Ret(w, value)

\* CharField.validate (max_length is not set in the schema); returns None.
CharFieldValidate(w, fs, value) ==
    IF FieldValidate(fs, value) # "ok" THEN Raise(w, FieldValidate(fs, value))
    ELSE IF ~IsNone(value) /\ value.ty # "str" THEN Raise(w, "TypeMismatch")
    ELSE Ret(w, None)

\* DateField.validate (no min_value, no max_value); returns the date.
DateFieldValidate(w, fs, value) ==
    IF FieldValidate(fs, value) # "ok" THEN Raise(w, FieldValidate(fs, value))
    ELSE IF IsNone(value) THEN Ret(w, None)
    ELSE IF value.ty = "date" THEN Ret(w, value)
    ELSE IF value.ty = "str" /\ FromIsoFormat(value.v) # 0
         THEN Ret(w, Date(FromIsoFormat(value.v)))
         ELSE Raise(w, "TypeMismatch")

\* ForeignKey.validate
ForeignKeyValidate(w, fs, value) ==
    IF ~fs.null /\ FieldValidate(fs, value) # "ok"
    THEN Raise(w, FieldValidate(fs, value))
    ELSE IF ~IsNone(value) /\ ~(value.ty = "obj" /\ ModelOf(value.v) = fs.model_class)
    THEN Raise(w, "TypeMismatch")
    ELSE Ret(w, None)

\* ManyToManyField.validate
ManyToManyFieldValidate(w, fs, value) ==
    IF ~IsNone(value) /\ value.ty # "list" THEN Raise(w, "TypeMismatch")
    ELSE IF ~IsNone(value)
            /\ \E k \in 1..Len(value.v) :
                   ~(value.v[k].ty = "obj" /\ ModelOf(value.v[k].v) = fs.model_class)
    THEN Raise(w, "TypeMismatch")
    ELSE Ret(w, None)

\* field.validate(value), by the field's class.
Validate(w, fs, value) ==
    CASE fs.kind = "Auto" -> AutoFieldValidate(w, value)
      [] fs.kind = "Char" -> CharFieldValidate(w, fs, value)
      [] fs.kind = "Date" -> DateFieldValidate(w, fs, value)
      [] fs.kind = "FK" -> ForeignKeyValidate(w, fs, value)
      [] fs.kind = "M2M" -> ManyToManyFieldValidate(w, fs, value)

\* ------------------------------------------------------------ Model objects
\* The loop of Model.__init__ from field k on; acc holds the attributes set.
InitFields(w, m, kwargs, k, acc) ==
    IF k > Len(Fields(m)) THEN Ret(w, acc)
    ELSE LET name == Fields(m)[k][1]
             fs == Fields(m)[k][2]
             value == IF name \in DOMAIN kwargs THEN kwargs[name] ELSE fs.default
         IN Let(Validate(w, fs, value), LAMBDA r :
                IF r.err # "ok" THEN r
                ELSE InitFields(r.w, m, kwargs, k + 1,
                                acc @@ (name :> (IF fs.kind = "Auto" /\ ~IsNone(r.val)
                                                 THEN r.val ELSE value))))

\* Model.__init__(id=id, **kwargs): the new object, or the validator's error.
Construct(w, m, id, kwargs) ==
    Let(InitFields(w, m, kwargs, 1, <<>>), LAMBDA r :
        IF r.err # "ok" THEN r ELSE Ret(r.w, [id |-> id, f |-> r.val]))

\* Model.to_dict raises AttributeError: a temporal attribute holds a str, which has
\* no isoformat.
ToDictRaises(m, o) ==
    \E k \in 1..Len(Fields(m)) :
        Fields(m)[k][2].kind = "Date" /\ o.f[Fields(m)[k][1]].ty = "str"

\* One value of Model.to_dict.
ToDictValue(fs, val) ==
    CASE fs.kind = "FK" -> IF IsNone(val) THEN None ELSE IdStr(val.v)
      [] fs.kind = "Date" -> IF val.ty = "date" THEN Str(IsoFormat(val.v)) ELSE val
      [] fs.kind = "M2M" ->
            IF IsNone(val) THEN List(<<>>)
            ELSE List([k \in 1..Len(val.v) |-> IdStr(val.v[k].v)])
      [] OTHER -> val

\* Model.to_dict: the snapshot of an object.
ToDict(m, o) ==
    [id |-> o.id,
     f |-> [name \in FieldNames(m) |-> ToDictValue(Fields(m)[FieldOf(m, name)][2],
                                                   o.f[name])]]

\* What a query hands out: the object, and whose object it is ("app": the
\* application's own, "cached": one only the cache holds, "fresh": just built).
Entry(o, ident) == [ty |-> "obj", v |-> o.id, o |-> o, ident |-> ident]
AsRef(e) == IF IsNone(e) THEN None ELSE Ref(e.v)

\* [field.model_class.get_by_id(i) for i in val or []], from element k on.
ResolveEach(w, target, ids, k) ==
    IF k > Len(ids) THEN Ret(w, <<>>)
    ELSE Let(GetById(w, ids[k].v), LAMBDA r :
             IF r.err # "ok" THEN r
             ELSE Let(ResolveEach(r.w, target, ids, k + 1), LAMBDA rest :
                      IF rest.err # "ok" THEN rest
                      ELSE Ret(rest.w, <<AsRef(r.val)>> \o rest.val)))

\* The loop of Model._from_dict from field k on; acc is obj_data.
FromFields(w, m, data, k, acc) ==
    IF k > Len(Fields(m)) THEN Ret(w, acc)
    ELSE LET name == Fields(m)[k][1]
             fs == Fields(m)[k][2]
             val == data.f[name]
         IN CASE fs.kind = "FK" ->
                    IF IsNone(val) THEN FromFields(w, m, data, k + 1, acc @@ (name :> None))
                    ELSE Let(GetById(w, val.v), LAMBDA r :
                             IF r.err # "ok" THEN r
                             ELSE FromFields(r.w, m, data, k + 1,
                                             acc @@ (name :> AsRef(r.val))))
              [] fs.kind = "M2M" ->
                    Let(ResolveEach(w, fs.model_class,
                                    IF IsNone(val) THEN <<>> ELSE val.v, 1), LAMBDA r :
                        IF r.err # "ok" THEN r
                        ELSE FromFields(r.w, m, data, k + 1, acc @@ (name :> List(r.val))))
              [] fs.kind = "Date" ->
                    IF val.ty # "str"
                    THEN FromFields(w, m, data, k + 1, acc @@ (name :> val))
                    ELSE IF FromIsoFormat(val.v) = 0 THEN Raise(w, "ValueError")
                    ELSE FromFields(w, m, data, k + 1,
                                    acc @@ (name :> Date(FromIsoFormat(val.v))))
              [] OTHER -> FromFields(w, m, data, k + 1, acc @@ (name :> val))

\* Model._from_dict
FromDict(w, m, data) ==
    Let(FromFields(w, m, data, 1, <<>>), LAMBDA r :
        IF r.err # "ok" THEN r ELSE Construct(r.w, m, data.id, r.val))

\* Model.get_by_id, on the model the id belongs to: an Entry, or None.
GetById(w, id) ==
    LET m == ModelOf(id)
    IN IF CacheTruthy(w, m)
       THEN Ret(w, IF id \in DOMAIN w.cache[m]
                   THEN Entry(CachedObj(w, id),
                              IF w.cache[m][id].alias THEN "app" ELSE "cached")
                   ELSE None)
       ELSE IF id \in DOMAIN w.store[m]
            THEN Let(FromDict(w, m, w.store[m][id]), LAMBDA r :
                     IF r.err # "ok" THEN r ELSE Ret(r.w, Entry(r.val, "fresh")))
            ELSE Ret(w, None)

\* [cls._from_dict(v) for v in shelve.open(cls.db_file).values()], from k on.
LoadEach(w, m, ids, k) ==
    IF k > Len(ids) THEN Ret(w, <<>>)
    ELSE Let(FromDict(w, m, w.store[m][ids[k]]), LAMBDA r :
             IF r.err # "ok" THEN r
             ELSE Let(LoadEach(r.w, m, ids, k + 1), LAMBDA rest :
                      IF rest.err # "ok" THEN rest
                      ELSE Ret(rest.w, <<Entry(r.val, "fresh")>> \o rest.val)))

\* Model.all() without order_by, limit and offset: a sequence of Entries.
All(w, m) ==
    IF CacheTruthy(w, m)
    THEN Ret(w, LET ids == IdSeq(DOMAIN w.cache[m])
                IN [k \in 1..Len(ids) |->
                       Entry(CachedObj(w, ids[k]),
                             IF w.cache[m][ids[k]].alias THEN "app" ELSE "cached")])
    ELSE LoadEach(w, m, IdSeq(DOMAIN w.store[m]), 1)

\* Python's < on two attribute values: defined on two strings (by code point: the
\* digits come before the letters), two numbers, two dates; TypeError otherwise.
Collation == IsoText \o <<"a", "b", "c", "someday">>
Rank(v) ==
    IF v.ty = "str" THEN CHOOSE i \in 1..Len(Collation) : Collation[i] = v.v ELSE v.v
Comparable(a, b) == a.ty = b.ty /\ a.ty \in {"str", "int", "date"}
Less(a, b) == Rank(a) < Rank(b)

\* order_by: OrderBy(key, FALSE) is the string key, OrderBy(key, TRUE) is "-" + key.
OrderBy(key, reverse) == [ty |-> "order", key |-> key, reverse |-> reverse]

\* list.sort(key=attrgetter(key), reverse=reverse) is stable: e is placed behind
\* every element it is not strictly before.
RECURSIVE Insert(_, _, _, _)
Insert(data, e, key, reverse) ==
    IF data = <<>> THEN <<e>>
    ELSE IF (IF reverse THEN Less(Head(data).o.f[key], e.o.f[key])
                        ELSE Less(e.o.f[key], Head(data).o.f[key]))
         THEN <<e>> \o data
         ELSE <<Head(data)>> \o Insert(Tail(data), e, key, reverse)

RECURSIVE Sort(_, _, _)
Sort(data, key, reverse) ==
    IF data = <<>> THEN <<>>
    ELSE Insert(Sort(SubSeq(data, 1, Len(data) - 1), key, reverse),
                data[Len(data)], key, reverse)

\* The sort raises TypeError: it compares two keys that have no order (with two or
\* more elements every element is compared with another one).
SortRaises(data, key) ==
    /\ Len(data) >= 2
    /\ \E i, j \in 1..Len(data) : ~Comparable(data[i].o.f[key], data[j].o.f[key])

\* if offset: data = data[offset:]      if limit: data = data[:limit]
Truthy(n) == n.ty = "int" /\ n.v # 0
SliceFrom(data, offset) ==
    IF Truthy(offset) THEN SubSeq(data, offset.v + 1, Len(data)) ELSE data
SliceTo(data, limit) ==
    IF Truthy(limit) /\ limit.v < Len(data) THEN SubSeq(data, 1, limit.v) ELSE data

\* Model.all(order_by, limit, offset); None: the argument is not given.
AllWith(w, m, order_by, limit, offset) ==
    Let(All(w, m), LAMBDA r :
        IF r.err # "ok" THEN r
        ELSE IF IsNone(order_by) THEN Ret(r.w, SliceTo(SliceFrom(r.val, offset), limit))
        ELSE IF SortRaises(r.val, order_by.key) THEN Raise(r.w, "TypeError")
        ELSE Ret(r.w, SliceTo(SliceFrom(Sort(r.val, order_by.key, order_by.reverse),
                                        offset), limit)))

\* One condition of Model.where on one object.
Matches(o, k, v) ==
    LET val == o.f[k]
    IN IF val.ty = "obj" THEN val.v = v.v ELSE PyEq(val, v)

\* Model.where(**{k: v})
Where(w, m, k, v) ==
    Let(All(w, m), LAMBDA r :
        IF r.err # "ok" THEN r
        ELSE Ret(r.w, SelectSeq(r.val, LAMBDA e : Matches(e.o, k, v))))

\* Model.where(**conditions); conditions maps the field names given to values.
WhereAll(w, m, conditions) ==
    Let(All(w, m), LAMBDA r :
        IF r.err # "ok" THEN r
        ELSE Ret(r.w, SelectSeq(r.val, LAMBDA e :
                                   \A k \in DOMAIN conditions :
                                       Matches(e.o, k, conditions[k]))))

\* `self in getattr(o, fname)` for the application's object x as self: a list
\* holds x if one of its elements is the very object x (Model defines no __eq__).
\* The list of an owner that _from_dict has just built holds what get_by_id gave:
\* x itself only if the cache of x's model is read and its entry is x. The list of
\* an owner taken from its cache holds the objects that were put into it, taken
\* here to be the application's objects.
Contains(w, e, fname, x) ==
    \E j \in 1..Len(e.o.f[fname].v) :
        /\ ~IsNone(e.o.f[fname].v[j])
        /\ e.o.f[fname].v[j].v = x
        /\ e.ident = "fresh" =>
              /\ CacheTruthy(w, ModelOf(x))
              /\ x \in DOMAIN w.cache[ModelOf(x)]
              /\ w.cache[ModelOf(x)][x].alias

\* related(self) of make_backref(fname, model), called on the application's
\* object x.
Related(w, x, model, fname) ==
    Let(All(w, model), LAMBDA r :
        IF r.err # "ok" THEN r
        ELSE IF Fields(model)[FieldOf(model, fname)][2].kind = "FK"
        THEN Ret(r.w, SelectSeq(r.val, LAMBDA e :
                                   ~IsNone(e.o.f[fname]) /\ e.o.f[fname].v = x))
        ELSE IF \E k \in 1..Len(r.val) : IsNone(r.val[k].o.f[fname])
        THEN Raise(r.w, "TypeError")
        ELSE Ret(r.w, SelectSeq(r.val, LAMBDA e : Contains(r.w, e, fname, x))))

\* max(getattr(obj, field_name, 0) or 0 for obj in objects)
RECURSIVE MaxValue(_, _)
MaxValue(objects, name) ==
    IF objects = <<>> THEN 0
    ELSE LET x == Head(objects).o.f[name]
         IN Max(IF IsNone(x) THEN 0 ELSE x.v, MaxValue(Tail(objects), name))

\* An _initialize_counter that does not scan the stores.
ScanFieldsSkipped(w, m, k) == w

\* The recovery scan of one model, from field k on; an exception is swallowed.
ScanFields(w, m, k) ==
    IF k > Len(Fields(m)) THEN w
    ELSE IF Fields(m)[k][2].kind # "Auto" THEN ScanFields(w, m, k + 1)
    ELSE Let(All(w, m), LAMBDA r :
             ScanFields(IF r.err = "ok" /\ r.val # <<>>
                        THEN [r.w EXCEPT !.counter = Max(@, MaxValue(r.val, Fields(m)[k][1]))]
                        ELSE r.w,
                        m, k + 1))

\* for model_cls in Model.__subclasses__(), from model k on.
ScanModels(w, k) ==
    IF k > Len(Models) THEN w
    ELSE Let(ScanFields(w, Models[k], 1), LAMBDA w1 : ScanModels(w1, k + 1))

\* AutoField._initialize_counter
InitializeCounter(w) ==
    IF w.inited THEN w
    ELSE [ScanModels([w EXCEPT !.counter = IF w.file = NoFile THEN 0 ELSE w.file], 1)
              EXCEPT !.inited = TRUE]

\* ------------------------------------------------------------ save, delete
RECURSIVE CheckUnique(_, _, _, _), Delete(_, _), DeleteEach(_, _, _), ImportEach(_, _, _, _)
RECURSIVE CleanEach(_, _, _, _, _, _), DeleteFields(_, _, _, _), DeleteModels(_, _, _)

Without(fn, id) == [i \in DOMAIN fn \ {id} |-> fn[i]]

\* The uniqueness scan of Model.save without `obj.id != self.id`.
CheckUniqueAgainstSelf(w, m, o, k) ==
    IF k > Len(Fields(m)) THEN Ret(w, None)
    ELSE LET name == Fields(m)[k][1]
             value == o.f[name]
         IN IF ~Fields(m)[k][2].unique \/ IsNone(value) THEN CheckUnique(w, m, o, k + 1)
            ELSE Let(Where(w, m, name, value), LAMBDA existing :
                     IF existing.err # "ok" THEN existing
                     ELSE IF Len(existing.val) > 0
                     THEN Raise(existing.w, "UniqueConstraintViolation")
                     ELSE CheckUnique(existing.w, m, o, k + 1))

\* The uniqueness scan of Model.save, from field k on.
CheckUnique(w, m, o, k) ==
    IF k > Len(Fields(m)) THEN Ret(w, None)
    ELSE LET name == Fields(m)[k][1]
             value == o.f[name]
         IN IF ~Fields(m)[k][2].unique \/ IsNone(value) THEN CheckUnique(w, m, o, k + 1)
            ELSE Let(Where(w, m, name, value), LAMBDA existing :
                     IF existing.err # "ok" THEN existing
                     ELSE IF \E j \in 1..Len(existing.val) : existing.val[j].v # o.id
                     THEN Raise(existing.w, "UniqueConstraintViolation")
                     ELSE CheckUnique(existing.w, m, o, k + 1))

\* The two writes of Model.save: the snapshot, and the cache entry if a cache is set.
WriteObject(w, m, o, ident) ==
    LET w1 == [w EXCEPT !.store[m] = (o.id :> ToDict(m, o)) @@ @,
                        !.log = Append(@, [step |-> "write", id |-> o.id])]
    IN IF w1.cache_on[m]
       THEN [w1 EXCEPT !.cache[m] = (o.id :> (IF ident = "app" THEN Alias ELSE Held(o))) @@ @]
       ELSE w1

\* Model.save of object o, which is the application's, the cache's or a fresh one.
Save(w, m, o, ident) ==
    Let(CheckUnique(w, m, o, 1), LAMBDA u :
        IF u.err # "ok" THEN u
        ELSE IF ToDictRaises(m, o) THEN Raise(u.w, "AttributeError")
        ELSE Ret(WriteObject(u.w, m, o, ident), None))

\* setattr(obj, name, value) on an object a query handed out.
SetAttr(w, e, name, value) ==
    CASE e.ident = "app" -> [w EXCEPT !.obj[e.v].f[name] = value]
      [] e.ident = "cached" ->
            [w EXCEPT !.cache[ModelOf(e.v)][e.v] = Held([e.o EXCEPT !.f[name] = value])]
      [] OTHER -> w

\* The cascade loop calling delete() twice on every child.
DeleteEachTwice(w, entries, k) ==
    IF k > Len(entries) THEN Ret(w, None)
    ELSE Let(Delete(w, entries[k].v), LAMBDA r :
             IF r.err # "ok" THEN r
             ELSE Let(Delete(r.w, entries[k].v), LAMBDA t :
                      IF t.err # "ok" THEN t ELSE DeleteEach(t.w, entries, k + 1)))

\* for obj in model.where(**{fname: self}): obj.delete(), from element k on.
DeleteEach(w, entries, k) ==
    IF k > Len(entries) THEN Ret(w, None)
    ELSE Let(Delete(w, entries[k].v), LAMBDA r :
             IF r.err # "ok" THEN r ELSE DeleteEach(r.w, entries, k + 1))

\* The many-to-many loop of Model.delete over model.all(), from element k on.
CleanEach(w, id, model, fname, entries, k) ==
    IF k > Len(entries) THEN Ret(w, None)
    ELSE LET e == entries[k]
             old == e.o.f[fname]
         IN IF IsNone(old) THEN Raise(w, "TypeError")
            ELSE LET new == SelectSeq(old.v, LAMBDA o : o.v # id)
                 IN IF Len(old.v) = Len(new)
                    THEN CleanEach(w, id, model, fname, entries, k + 1)
                    ELSE Let(Save(SetAttr(w, e, fname, List(new)), model,
                                  [e.o EXCEPT !.f[fname] = List(new)], e.ident), LAMBDA r :
                             IF r.err # "ok" THEN r
                             ELSE CleanEach(r.w, id, model, fname, entries, k + 1))

\* for fname, field in model._fields.items(), from field k on.
DeleteFields(w, id, model, k) ==
    IF k > Len(Fields(model)) THEN Ret(w, None)
    ELSE LET fname == Fields(model)[k][1]
             field == Fields(model)[k][2]
             cascade == IF field.kind = "FK" /\ field.model_class = ModelOf(id)
                           /\ field.on_delete = "cascade"
                        THEN Let(Where(w, model, fname, Ref(id)), LAMBDA r :
                                 IF r.err # "ok" THEN r ELSE DeleteEach(r.w, r.val, 1))
                        ELSE Ret(w, None)
         IN Let(cascade, LAMBDA a :
                IF a.err # "ok" THEN a
                ELSE Let(IF field.kind = "M2M" /\ field.model_class = ModelOf(id)
                         THEN Let(All(a.w, model), LAMBDA r :
                                  IF r.err # "ok" THEN r
                                  ELSE CleanEach(r.w, id, model, fname, r.val, 1))
                         ELSE a,
                         LAMBDA b :
                             IF b.err # "ok" THEN b
                             ELSE DeleteFields(b.w, id, model, k + 1)))

\* for model in Model.__subclasses__(), from model k on.
DeleteModels(w, id, k) ==
    IF k > Len(Models) THEN Ret(w, None)
    ELSE Let(DeleteFields(w, id, Models[k], 1), LAMBDA r :
             IF r.err # "ok" THEN r ELSE DeleteModels(r.w, id, k + 1))

\* Model.delete without the removal of the entry.
RemoveObjectSkipped(w, id) == w

\* The removal at the end of Model.delete.
RemoveObject(w, id) ==
    LET m == ModelOf(id)
        w1 == IF id \in DOMAIN w.store[m]
              THEN [w EXCEPT !.store[m] = Without(@, id),
                             !.log = Append(@, [step |-> "remove", id |-> id])]
              ELSE w
    IN IF CacheTruthy(w1, m) THEN [w1 EXCEPT !.cache[m] = Without(@, id)] ELSE w1

\* Model.delete removing the entry although a step of the loop raised.
DeleteRemovingAnyway(w, id) ==
    Let(DeleteModels([w EXCEPT !.calls = Append(@, id)], id, 1), LAMBDA r :
        IF r.err # "ok" THEN Raise(RemoveObject(r.w, id), r.err)
        ELSE Ret(RemoveObject(r.w, id), None))

\* Model.delete of the object with this id.
Delete(w, id) ==
    Let(DeleteModels([w EXCEPT !.calls = Append(@, id)], id, 1), LAMBDA r :
        IF r.err # "ok" THEN r ELSE Ret(RemoveObject(r.w, id), None))

\* Model.open(index=True): the cache built from the store, or the loader's error.
OpenIndex(w, m) ==
    Let(LoadEach(w, m, IdSeq(DOMAIN w.store[m]), 1), LAMBDA r :
        IF r.err # "ok" THEN r
        ELSE Ret([r.w EXCEPT !.cache_on[m] = TRUE,
                             !.cache[m] = [i \in DOMAIN w.store[m] |->
                                             Held(r.val[CHOOSE k \in 1..Len(r.val) :
                                                            r.val[k].v = i].o)]],
                 None))

\* Model.export_json: every value of a snapshot is None, a str, an int or a list of
\* str, which json.dump and json.load give back as they are.
ExportJson(w, m) ==
    Let(All(w, m), LAMBDA r :
        IF r.err # "ok" \/ \E k \in 1..Len(r.val) : ToDictRaises(m, r.val[k].o)
        THEN Raise([r.w EXCEPT !.json = [m |-> m, complete |-> FALSE, rows |-> <<>>,
                                         at_export |-> w.store]],
                   IF r.err # "ok" THEN r.err ELSE "AttributeError")
        ELSE Ret([r.w EXCEPT !.json = [m |-> m, complete |-> TRUE,
                                       rows |-> [k \in 1..Len(r.val) |->
                                                    ToDict(m, r.val[k].o)],
                                       at_export |-> w.store]], None))

\* for row in data: obj = cls._from_dict(row); obj.save(), from row k on.
ImportEach(w, m, rows, k) ==
    IF k > Len(rows) THEN Ret(w, None)
    ELSE Let(FromDict(w, m, rows[k]), LAMBDA r :
             IF r.err # "ok" THEN r
             ELSE Let(Save(r.w, m, r.val, "fresh"), LAMBDA sv :
                      IF sv.err # "ok" THEN sv ELSE ImportEach(sv.w, m, rows, k + 1)))

\* Model.import_json of the exported file.
ImportJson(w, m) ==
    IF ~w.json.complete THEN Raise(w, "DeserializationError")
    ELSE ImportEach(w, m, w.json.rows, 1)

\* -------------------------------------------------------- the application
\* The state the library's functions leave behind.
SetWorld(w) ==
    /\ store' = w.store
    /\ cache_on' = w.cache_on
    /\ cache' = w.cache
    /\ obj' = w.obj
    /\ counter' = w.counter
    /\ counter_initialized' = w.inited
    /\ counter_file' = w.file
    /\ disk_ok' = w.disk_ok
    /\ json_file' = w.json

\* What last records: the call, its target, the exception raised ("ok": none), a
\* constructor's keyword arguments, the AutoField value it allocated (0: none) and
\* the allocations made before it.
NoHist == [process_max |-> 0, ever_max |-> 0, cleared |-> FALSE]
Done(op, id, err, kwargs, alloc, before) ==
    [op |-> op, id |-> id, err |-> err, kwargs |-> kwargs, alloc |-> alloc,
     before |-> before, val |-> <<>>]

\* The application's variable for id is bound to object o; an object the cache
\* shared with the old binding stays in the cache.
Bind(w, id, o) ==
    LET m == ModelOf(id)
        w1 == IF id \in DOMAIN w.cache[m] /\ w.cache[m][id].alias
              THEN [w EXCEPT !.cache[m][id] = Held(w.obj[id])]
              ELSE w
    IN [w1 EXCEPT !.obj = (id :> o) @@ @]

\* The values the application gives a field; names: the strings it stores in a
\* CharField, supplied: the AutoField values it supplies.
Choices(m, k, names, supplied) ==
    LET fs == Fields(m)[k][2]
    IN CASE fs.kind = "Char" -> {Str(x) : x \in names}
         [] fs.kind = "Auto" -> {Num(n) : n \in supplied}
         [] fs.kind = "Date" ->
               {Date(d) : d \in 1..MaxDay} \cup {Str(IsoFormat(1)), Str("someday")}
         [] fs.kind = "FK" -> {Ref(i) : i \in {j \in DOMAIN obj : ModelOf(j) = fs.model_class}}
         [] fs.kind = "M2M" ->
               {List(LET q == IdSeq(S) IN [j \in 1..Len(q) |-> Ref(q[j])]) :
                    S \in SUBSET {j \in DOMAIN obj : ModelOf(j) = fs.model_class}}

\* The keyword arguments of a constructor call, from field k on; None: not given.
RECURSIVE KwargsFrom(_, _, _, _)
KwargsFrom(m, k, names, supplied) ==
    IF k > Len(Fields(m)) THEN {<<>>}
    ELSE {(Fields(m)[k][1] :> v) @@ rest :
              v \in Choices(m, k, names, supplied) \cup {None},
              rest \in KwargsFrom(m, k + 1, names, supplied)}

\* The AutoField value a constructor call allocated, 0 if none (in the schema no
\* field after an AutoField can fail).
Allocated(m, kwargs, r) ==
    IF r.err = "ok" /\ \E k \in 1..Len(Fields(m)) :
                           Fields(m)[k][2].kind = "Auto" /\ IsNone(kwargs[Fields(m)[k][1]])
    THEN r.val.f[Fields(m)[CHOOSE k \in 1..Len(Fields(m)) :
                               Fields(m)[k][2].kind = "Auto"][1]].v
    ELSE 0

\* r = M(id=id, **kwargs)
ConstructObject(id, kwargs) ==
    \E r \in {Construct(World, ModelOf(id), id, kwargs)} :
        \E alloc \in {Allocated(ModelOf(id), kwargs, r)} :
            /\ r.w.counter <= MaxCounter
            /\ \E w \in {IF r.err = "ok" THEN Bind(r.w, id, r.val) ELSE r.w} : SetWorld(w)
            /\ last' = Done("construct", id, r.err, kwargs, alloc,
                            IF alloc = 0 THEN NoHist ELSE hist)
            /\ hist' = IF alloc = 0 THEN hist
                       ELSE [process_max |-> Max(hist.process_max, alloc),
                             ever_max |-> Max(hist.ever_max, alloc),
                             cleared |-> FALSE]

\* r.name = value
Assign(id, k, value) ==
    /\ id \in DOMAIN obj
    /\ Fields(ModelOf(id))[k][2].kind # "Auto"
    /\ obj' = [obj EXCEPT ![id].f[Fields(ModelOf(id))[k][1]] = value]
    /\ last' = Done("assign", id, "ok", <<>>, 0, NoHist)
    /\ UNCHANGED <<store, cache_on, cache, counter, counter_initialized, counter_file,
                   disk_ok, json_file, hist>>

\* r.save()
SaveObject(id) ==
    /\ id \in DOMAIN obj
    /\ \E r \in {Save(World, ModelOf(id), obj[id], "app")} :
          /\ SetWorld(r.w)
          /\ last' = Done("save", id, r.err, <<>>, 0, NoHist)
    /\ UNCHANGED hist

\* r.delete()
DeleteObject(id) ==
    /\ id \in DOMAIN obj
    /\ \E r \in {Delete(World, id)} :
          /\ SetWorld(r.w)
          /\ last' = Done("delete", id, r.err, <<>>, 0, NoHist)
    /\ UNCHANGED hist

\* r = M.get_by_id(id)
Fetch(id) ==
    /\ \E r \in {GetById(World, id)} :
          /\ \E w \in {IF r.err # "ok" \/ IsNone(r.val) THEN r.w
                        ELSE IF r.val.ident = "app" THEN r.w
                        ELSE IF r.val.ident = "cached"
                        THEN [r.w EXCEPT !.obj = (id :> r.val.o) @@ @,
                                         !.cache[ModelOf(id)][id] = Alias]
                        ELSE Bind(r.w, id, r.val.o)} : SetWorld(w)
          /\ last' = Done("fetch", id, IF r.err = "ok" /\ IsNone(r.val) THEN "None" ELSE r.err,
                          <<>>, 0, NoHist)
    /\ UNCHANGED hist

\* M.all(order_by=order_by, limit=limit, offset=offset); last keeps the arguments
\* and the list returned.
ListAll(m, order_by, limit, offset) ==
    /\ \E r \in {AllWith(World, m, order_by, limit, offset)} :
          /\ SetWorld(r.w)
          /\ last' = [Done("all", <<m, 0>>, r.err,
                           [order_by |-> order_by, limit |-> limit, offset |-> offset],
                           0, NoHist)
                      EXCEPT !.val = IF r.err = "ok" THEN r.val ELSE <<>>]
    /\ UNCHANGED hist

\* M.where(**conditions); last keeps the conditions and the list returned.
Query(m, conditions) ==
    /\ \E r \in {WhereAll(World, m, conditions)} :
          /\ SetWorld(r.w)
          /\ last' = [Done("where", <<m, 0>>, r.err, conditions, 0, NoHist)
                      EXCEPT !.val = IF r.err = "ok" THEN r.val ELSE <<>>]
    /\ UNCHANGED hist

\* The conditions the application gives where(): for each field of m either
\* nothing or one of the values it gives the field, from field k on.
RECURSIVE ConditionsFrom(_, _, _)
ConditionsFrom(m, k, names) ==
    IF k > Len(Fields(m)) THEN {<<>>}
    ELSE {IF IsNone(v) THEN rest ELSE (Fields(m)[k][1] :> v) @@ rest :
              v \in Choices(m, k, names, {}) \cup {None},
              rest \in ConditionsFrom(m, k + 1, names)}

\* x.groups(), x.messages(): the accessor that field fname of model gives the
\* application's object x; last keeps the list returned.
Backref(x, model, fname) ==
    /\ x \in DOMAIN obj
    /\ \E r \in {Related(World, x, model, fname)} :
          /\ SetWorld(r.w)
          /\ last' = [Done("related", x, r.err, [model |-> model, fname |-> fname],
                           0, NoHist)
                      EXCEPT !.val = IF r.err = "ok" THEN r.val ELSE <<>>]
    /\ UNCHANGED hist

\* M.open(index=True)
OpenIndexed(m) ==
    /\ \E r \in {OpenIndex(World, m)} :
          /\ SetWorld(r.w)
          /\ last' = Done("open", <<m, 0>>, r.err, <<>>, 0, NoHist)
    /\ UNCHANGED hist

\* M.open(index=False)
OpenPlain(m) ==
    /\ cache_on' = [cache_on EXCEPT ![m] = FALSE]
    /\ cache' = [cache EXCEPT ![m] = <<>>]
    /\ last' = Done("close", <<m, 0>>, "ok", <<>>, 0, NoHist)
    /\ UNCHANGED <<store, obj, counter, counter_initialized, counter_file, disk_ok,
                   json_file, hist>>

\* The process's counter state and the counter file are cleared (the class attributes
\* as first set, no autofield_counter.dat).
ClearCounter ==
    /\ counter' = 0
    /\ counter_initialized' = FALSE
    /\ counter_file' = NoFile
    /\ last' = Done("clear", <<"", 0>>, "ok", <<>>, 0, NoHist)
    /\ hist' = [hist EXCEPT !.process_max = 0, !.cleared = TRUE]
    /\ UNCHANGED <<store, cache_on, cache, obj, disk_ok, json_file>>

\* The process ends and a new one starts: the class attributes are as first set and
\* the application holds no object; the stores and the counter file stay.
Restart ==
    /\ counter' = 0
    /\ counter_initialized' = FALSE
    /\ cache_on' = [m \in ModelSet |-> FALSE]
    /\ cache' = [m \in ModelSet |-> <<>>]
    /\ obj' = <<>>
    /\ last' = Done("restart", <<"", 0>>, "ok", <<>>, 0, NoHist)
    /\ hist' = [hist EXCEPT !.process_max = 0]
    /\ UNCHANGED <<store, counter_file, disk_ok, json_file>>

\* Writing the counter file starts to fail (a read-only directory, a full disk), or
\* works again.
DiskChange ==
    /\ disk_ok' = ~disk_ok
    /\ last' = Done("disk", <<"", 0>>, "ok", <<>>, 0, NoHist)
    /\ UNCHANGED <<store, cache_on, cache, obj, counter, counter_initialized,
                   counter_file, json_file, hist>>

\* M.export_json(path)
ExportObjects(m) ==
    /\ \E r \in {ExportJson(World, m)} :
          /\ SetWorld(r.w)
          /\ last' = Done("export", <<m, 0>>, r.err, <<>>, 0, NoHist)
    /\ UNCHANGED hist

\* The files of the store of m are removed.
EmptyStore(m) ==
    /\ store[m] # <<>>
    /\ store' = [store EXCEPT ![m] = <<>>]
    /\ last' = Done("empty", <<m, 0>>, "ok", <<>>, 0, NoHist)
    /\ UNCHANGED <<cache_on, cache, obj, counter, counter_initialized, counter_file,
                   disk_ok, json_file, hist>>

\* M.import_json(path), the file being one that M.export_json wrote; last keeps
\* whether the call follows a completed import of the same file directly.
ImportObjects(m) ==
    /\ json_file.m = m
    /\ \E r \in {ImportJson(World, m)} :
          /\ SetWorld(r.w)
          /\ last' = Done("import", <<m, 0>>, r.err,
                          [again |-> last.op = "import" /\ last.err = "ok"], 0, NoHist)
    /\ UNCHANGED hist

Init ==
    /\ store = [m \in ModelSet |-> <<>>]
    /\ cache_on = [m \in ModelSet |-> FALSE]
    /\ cache = [m \in ModelSet |-> <<>>]
    /\ obj = <<>>
    /\ counter = 0
    /\ counter_initialized = FALSE
    /\ counter_file = NoFile
    /\ disk_ok = TRUE
    /\ json_file = NoJson
    /\ last = Done("init", <<"", 0>>, "ok", <<>>, 0, NoHist)
    /\ hist = NoHist

\* Records of AllFixesModel (a unique name, an AutoField), with and without a cache.
Next ==
    \/ \E id \in IdsOf("AllFixesModel", Items) :
          \/ \E kwargs \in KwargsFrom("AllFixesModel", 1, {"a", "b"}, {}) :
                ConstructObject(id, kwargs)
          \/ \E x \in {"a", "b"} : Assign(id, 1, Str(x))
          \/ Assign(id, 1, None)
          \/ SaveObject(id)
          \/ DeleteObject(id)
          \/ Fetch(id)
    \/ OpenIndexed("AllFixesModel")
    \/ OpenPlain("AllFixesModel")

Spec == Init /\ [][Next]_vars

\* Records of AllFixesModel without attribute assignment, the application also
\* supplying AutoField values; the counter state and its file can be cleared.
NextPlain ==
    \/ \E id \in IdsOf("AllFixesModel", PlainItems) :
          \/ \E kwargs \in KwargsFrom("AllFixesModel", 1, {"a"}, 1..MaxSupplied) :
                ConstructObject(id, kwargs)
          \/ SaveObject(id)
          \/ DeleteObject(id)
          \/ Fetch(id)
    \/ ClearCounter
    \/ OpenIndexed("AllFixesModel")
    \/ OpenPlain("AllFixesModel")

SpecPlain == Init /\ [][NextPlain]_vars

\* Records of AllFixesModel over several processes, the counter file surviving a
\* restart and its writes failing at times.
NextRestart ==
    \/ \E id \in IdsOf("AllFixesModel", PlainItems) :
          \/ \E kwargs \in KwargsFrom("AllFixesModel", 1, {"a"}, 1..MaxSupplied) :
                ConstructObject(id, kwargs)
          \/ SaveObject(id)
          \/ DeleteObject(id)
          \/ Fetch(id)
    \/ Restart
    \/ DiskChange

SpecRestart == Init /\ [][NextRestart]_vars

\* What the application does with User records.
UserActions ==
    \/ \E id \in IdsOf("User", RelUsers) :
          \/ \E kwargs \in KwargsFrom("User", 1, {"a"}, {}) : ConstructObject(id, kwargs)
          \/ SaveObject(id)
          \/ DeleteObject(id)
          \/ Fetch(id)
    \/ OpenIndexed("User")
    \/ OpenPlain("User")

\* Users and the messages that hold a cascading foreign key to a user, with and
\* without caches; the application reassigns a message's user.
NextCascade ==
    \/ UserActions
    \/ \E id \in IdsOf("Message", RelMessages) :
          \/ \E kwargs \in KwargsFrom("Message", 1, {"a"}, {}) : ConstructObject(id, kwargs)
          \/ \E value \in Choices("Message", 1, {}, {}) \cup {None} : Assign(id, 1, value)
          \/ SaveObject(id)
          \/ DeleteObject(id)
          \/ Fetch(id)
    \/ OpenIndexed("Message")
    \/ OpenPlain("Message")

SpecCascade == Init /\ [][NextCascade]_vars

\* Users and messages, with and without caches, that the application only
\* constructs, saves and deletes.
NextSaves ==
    \/ \E id \in IdsOf("User", RelUsers) :
          \/ \E kwargs \in KwargsFrom("User", 1, {"a"}, {}) : ConstructObject(id, kwargs)
          \/ SaveObject(id)
          \/ DeleteObject(id)
    \/ \E id \in IdsOf("Message", RelMessages) :
          \/ \E kwargs \in KwargsFrom("Message", 1, {"a"}, {}) : ConstructObject(id, kwargs)
          \/ SaveObject(id)
          \/ DeleteObject(id)
    \/ \E m \in {"User", "Message"} :
          \/ OpenIndexed(m)
          \/ OpenPlain(m)

SpecSaves == Init /\ [][NextSaves]_vars

\* Users and the groups that list them as members, with and without caches; the
\* application reassigns a group's member list.
NextMembers ==
    \/ UserActions
    \/ \E id \in IdsOf("Group", RelGroups) :
          \/ \E kwargs \in KwargsFrom("Group", 1, {"a"}, {}) : ConstructObject(id, kwargs)
          \/ \E value \in Choices("Group", 2, {}, {}) : Assign(id, 2, value)
          \/ SaveObject(id)
          \/ DeleteObject(id)
          \/ Fetch(id)
    \/ OpenIndexed("Group")
    \/ OpenPlain("Group")

SpecMembers == Init /\ [][NextMembers]_vars

\* Users, with and without a cache, the groups that list them and the messages that
\* refer to them, each constructed once and kept without a cache, and the users'
\* backref accessors.
NextBackref ==
    \/ UserActions
    \/ \E id \in IdsOf("Group", RelGroups) :
          \/ \E kwargs \in KwargsFrom("Group", 1, {"a"}, {}) :
                id \notin DOMAIN obj /\ ConstructObject(id, kwargs)
          \/ SaveObject(id)
          \/ DeleteObject(id)
    \/ \E id \in IdsOf("Message", RelMessages) :
          \/ \E kwargs \in KwargsFrom("Message", 1, {"a"}, {}) :
                id \notin DOMAIN obj /\ ConstructObject(id, kwargs)
          \/ SaveObject(id)
          \/ DeleteObject(id)
    \/ \E x \in IdsOf("User", RelUsers) :
          \/ Backref(x, "Group", "members")
          \/ Backref(x, "Message", "user")

SpecBackref == Init /\ [][NextBackref]_vars

\* Users, with and without a cache, deleted while groups list them and messages
\* refer to them; groups and messages are constructed once and kept without a
\* cache, and the application may clear a message's content before it saves it.
NextDelete ==
    \/ \E id \in IdsOf("User", DelUsers) :
          \/ \E kwargs \in KwargsFrom("User", 1, {"a"}, {}) : ConstructObject(id, kwargs)
          \/ SaveObject(id)
          \/ DeleteObject(id)
    \/ OpenIndexed("User")
    \/ OpenPlain("User")
    \/ \E id \in IdsOf("Group", DelGroups) :
          \/ \E kwargs \in KwargsFrom("Group", 1, {"a"}, {}) :
                id \notin DOMAIN obj /\ ConstructObject(id, kwargs)
          \/ SaveObject(id)
    \/ \E id \in IdsOf("Message", DelMessages) :
          \/ \E kwargs \in KwargsFrom("Message", 1, {"a"}, {}) :
                id \notin DOMAIN obj /\ ConstructObject(id, kwargs)
          \/ Assign(id, 2, None)
          \/ SaveObject(id)

SpecDelete == Init /\ [][NextDelete]_vars

\* Users and messages as above, and the messages queried by where().
NextWhere ==
    \/ NextCascade
    \/ \E conditions \in ConditionsFrom("Message", 1, {"a", "b"}) :
          Query("Message", conditions)

SpecWhere == Init /\ [][NextWhere]_vars

\* Records of DateTimeModel (a required name, an optional date) without a cache,
\* each constructed once, listed with and without sorting and pagination.
NextQuery ==
    \/ \E id \in IdsOf("DateTimeModel", DatedItems) :
          \/ \E kwargs \in KwargsFrom("DateTimeModel", 1, {"a", "b"}, {}) :
                id \notin DOMAIN obj /\ ConstructObject(id, kwargs)
          \/ SaveObject(id)
          \/ DeleteObject(id)
    \/ \E limit \in {None} \cup {Num(n) : n \in 0..MaxLimit},
          offset \in {None} \cup {Num(n) : n \in 0..MaxOffset},
          order_by \in {None, OrderBy("name", FALSE)} :
          ListAll("DateTimeModel", order_by, limit, offset)
    \/ \E key \in {"name", "event_date"}, reverse \in BOOLEAN :
          ListAll("DateTimeModel", OrderBy(key, reverse), None, None)

SpecQuery == Init /\ [][NextQuery]_vars

\* Users and messages without caches; the messages are exported, their store is
\* emptied and the file is imported.
NextExport ==
    \/ \E id \in IdsOf("User", RelUsers) :
          \/ \E kwargs \in KwargsFrom("User", 1, {"a"}, {}) : ConstructObject(id, kwargs)
          \/ SaveObject(id)
          \/ DeleteObject(id)
    \/ \E id \in IdsOf("Message", RelMessages) :
          \/ \E kwargs \in KwargsFrom("Message", 1, {"a"}, {}) : ConstructObject(id, kwargs)
          \/ SaveObject(id)
          \/ DeleteObject(id)
    \/ ExportObjects("Message")
    \/ EmptyStore("Message")
    \/ ImportObjects("Message")

SpecExport == Init /\ [][NextExport]_vars

\* Records of AllFixesModel (a unique name, an AutoField), with and without a
\* cache; they are exported, their store is emptied and the file is imported,
\* once or several times.
NextImport ==
    \/ \E id \in IdsOf("AllFixesModel", ImpItems) :
          \/ \E kwargs \in KwargsFrom("AllFixesModel", 1, {"a", "b"}, {}) :
                ConstructObject(id, kwargs)
          \/ SaveObject(id)
          \/ DeleteObject(id)
    \/ OpenIndexed("AllFixesModel")
    \/ OpenPlain("AllFixesModel")
    \/ ExportObjects("AllFixesModel")
    \/ EmptyStore("AllFixesModel")
    \/ ImportObjects("AllFixesModel")

SpecImport == Init /\ [][NextImport]_vars

\* ------------------------------------------------------------------ claims
SavedOk == last.op = "save" /\ last.err = "ok"

\* C1: after r.save() succeeds, get_by_id(r.id) returns a record whose snapshot
\* equals r's snapshot at the time of the save.
C1_RoundTrip ==
    SavedOk =>
        \E r \in {GetById(World, last.id)} :
           /\ r.err = "ok"
           /\ ~IsNone(r.val)
           /\ ToDict(ModelOf(last.id), r.val.o) = ToDict(ModelOf(last.id), obj[last.id])

\* No two snapshots with distinct ids of one store hold the same (non-null) value
\* in a unique field.
UniqueInStore ==
    \A m \in ModelSet : \A k \in 1..Len(Fields(m)) :
        Fields(m)[k][2].unique =>
            \A i, j \in DOMAIN store[m] :
                i # j => LET a == store[m][i].f[Fields(m)[k][1]]
                             b == store[m][j].f[Fields(m)[k][1]]
                         IN IsNone(a) \/ ~PyEq(a, b)

\* C2: at the end of every successful save, no two snapshots with distinct ids in
\* the same store hold the same value in a unique field.
C2_UniqueAfterSave == SavedOk => UniqueInStore

\* The application's object id holds, in a unique field, the value a different
\* persisted record holds there.
DuplicatesOther(id) ==
    /\ id \in DOMAIN obj
    /\ \E k \in 1..Len(Fields(ModelOf(id))) :
          /\ Fields(ModelOf(id))[k][2].unique
          /\ ~IsNone(obj[id].f[Fields(ModelOf(id))[k][1]])
          /\ \E j \in DOMAIN store[ModelOf(id)] \ {id} :
                PyEq(obj[id].f[Fields(ModelOf(id))[k][1]],
                     store[ModelOf(id)][j].f[Fields(ModelOf(id))[k][1]])

\* C3: saving a record whose unique value equals that of a different persisted
\* record fails with UniqueConstraintViolation and writes nothing: the store and
\* the cache stay as they were.
C3_DuplicateRejected ==
    [][(last'.op = "save" /\ DuplicatesOther(last'.id)) =>
           /\ last'.err = "UniqueConstraintViolation"
           /\ store' = store
           /\ cache' = cache
           /\ cache_on' = cache_on]_vars

\* The application's object id is persisted and its unique fields hold what its
\* snapshot holds.
UniqueUnchanged(id) ==
    /\ id \in DOMAIN obj
    /\ id \in DOMAIN store[ModelOf(id)]
    /\ \A k \in 1..Len(Fields(ModelOf(id))) :
          Fields(ModelOf(id))[k][2].unique =>
              PyEq(obj[id].f[Fields(ModelOf(id))[k][1]],
                   store[ModelOf(id)][id].f[Fields(ModelOf(id))[k][1]])

\* C4: re-saving a persisted record whose unique values are unchanged never raises
\* UniqueConstraintViolation.
C4_ResaveNeverRaises ==
    [][(last'.op = "save" /\ UniqueUnchanged(last'.id)) =>
           last'.err # "UniqueConstraintViolation"]_vars

\* The records removed from the stores by the step.
Removed == UNION {DOMAIN store[m] \ DOMAIN store'[m] : m \in ModelSet}

\* A record of model m that, through field k, still refers to record x after the
\* step: in the store, or in the cache.
StillRefers(m, k, x) ==
    \/ \E i \in DOMAIN store'[m] : PyEq(store'[m][i].f[Fields(m)[k][1]], IdStr(x))
    \/ /\ cache_on'[m]
       /\ \E i \in DOMAIN cache'[m] :
              PyEq(IF cache'[m][i].alias THEN obj'[i].f[Fields(m)[k][1]]
                   ELSE cache'[m][i].o.f[Fields(m)[k][1]], Ref(x))

\* C5: after delete() of a persisted parent returns, no record that refers to the
\* parent, or to a record the cascade removed, through a cascading foreign key
\* remains in its store or its cache.
C5_CascadeLeavesNoChild ==
    [][(last'.op = "delete" /\ last'.err = "ok"
            /\ last'.id \in DOMAIN store[ModelOf(last'.id)]) =>
           \A x \in Removed : \A m \in ModelSet : \A k \in 1..Len(Fields(m)) :
               (Fields(m)[k][2].kind = "FK" /\ Fields(m)[k][2].model_class = ModelOf(x)
                    /\ Fields(m)[k][2].on_delete = "cascade")
                   => ~StillRefers(m, k, x)]_vars

\* The snapshot with x taken out of its list in field name.
WithoutMember(snapshot, name, x) ==
    [snapshot EXCEPT !.f[name] = List(SelectSeq(@.v, LAMBDA e : e.v # x))]

\* C6: after delete() of a persisted record x returns, no persisted many-to-many
\* list pointing at x's model contains x's id; every owner is still persisted, with
\* x taken out of its list and nothing else changed.
C6_MembersCleaned ==
    [][(last'.op = "delete" /\ last'.err = "ok"
            /\ last'.id \in DOMAIN store[ModelOf(last'.id)]) =>
           \A m \in ModelSet : \A k \in 1..Len(Fields(m)) :
               (Fields(m)[k][2].kind = "M2M"
                    /\ Fields(m)[k][2].model_class = ModelOf(last'.id))
                   => /\ DOMAIN store'[m] = DOMAIN store[m]
                      /\ \A i \in DOMAIN store[m] :
                             store'[m][i] = WithoutMember(store[m][i], Fields(m)[k][1],
                                                          last'.id)]_vars

\* C7: every snapshot a successful save wrote holds a non-null value for every
\* required field.
C7_RequiredNotNull ==
    SavedOk =>
        \A k \in 1..Len(Fields(ModelOf(last.id))) :
            Fields(ModelOf(last.id))[k][2].required =>
                ~IsNone(store[ModelOf(last.id)][last.id].f[Fields(ModelOf(last.id))[k][1]])

\* The constructor call leaves a required field null: nothing supplied, a null
\* default (an AutoField is allocated instead and is never left null).
LeftNull(m, kwargs) ==
    \E k \in 1..Len(Fields(m)) :
        /\ Fields(m)[k][2].required
        /\ Fields(m)[k][2].kind # "Auto"
        /\ IsNone(kwargs[Fields(m)[k][1]])
        /\ IsNone(Fields(m)[k][2].default)

\* C8: constructing a record whose required field is left null raises
\* MissingRequiredField; no object results, so nothing can be saved, and the store
\* is unchanged.
C8_MissingRequired ==
    [][(last'.op = "construct" /\ LeftNull(ModelOf(last'.id), last'.kwargs)) =>
           /\ last'.err = "MissingRequiredField"
           /\ store' = store
           /\ obj' = obj]_vars

C8_Witness ==
    /\ last.op = "construct"
    /\ LeftNull(ModelOf(last.id), last.kwargs)
    /\ last.err = "MissingRequiredField"
    /\ store["AllFixesModel"] # <<>>

\* C9: within one process every AutoField allocation returns more than every
\* allocation before it.
C9_AllocationsIncrease ==
    (last.op = "construct" /\ last.alloc > 0) => last.alloc > last.before.process_max

C9_Witness ==
    /\ last.op = "construct"
    /\ last.alloc > 0
    /\ last.before.process_max > 0
    /\ ~last.before.cleared

\* The largest AutoField value in the stores (0: none).
MaxPersisted ==
    LET S == UNION {UNION {{store[m][i].f[Fields(m)[k][1]].v : i \in DOMAIN store[m]} :
                               k \in {k \in 1..Len(Fields(m)) : Fields(m)[k][2].kind = "Auto"}} :
                        m \in ModelSet}
    IN IF S = {} THEN 0 ELSE CHOOSE n \in S : \A x \in S : x <= n

\* The first allocation since the counter state and the counter file were cleared.
FirstAfterClear == last.op = "construct" /\ last.alloc > 0 /\ last.before.cleared

\* C10 as stated: the next allocation after the clearing exceeds the largest
\* AutoField value allocated before.
C10_ExceedsPreviousMax == FirstAfterClear => last.alloc > last.before.ever_max

\* C10 as amended: the next allocation after the clearing exceeds the largest
\* AutoField value the stores hold.
C10_ExceedsPersistedMax == FirstAfterClear => last.alloc > MaxPersisted

C10_Witness == FirstAfterClear /\ MaxPersisted > 0 /\ last.alloc > 1

\* C11: no call of the library makes the in-memory counter, or the integer in the
\* counter file, smaller than it was (a process start and a removal of the file
\* are not calls of the library).
C11_CounterNeverDecreases ==
    [][last'.op \notin {"restart", "clear"} =>
           /\ counter' >= counter
           /\ counter_file' >= counter_file]_vars

\* C12: after an allocation whose counter-file write succeeds, the file holds the
\* in-memory counter, which is the value returned: one more than the counter that
\* get_default found once initialized.
C12_AllocationPersisted ==
    [][(last'.op = "construct" /\ last'.alloc > 0 /\ disk_ok) =>
           /\ counter_file' = counter'
           /\ counter' = last'.alloc
           /\ last'.alloc = InitializeCounter(World).counter + 1]_vars

C12_Witness ==
    /\ last.op = "construct"
    /\ last.alloc > 1
    /\ disk_ok
    /\ counter_file = last.alloc

\* C13: Deleted is terminal; in particular a save() that directly follows the
\* completed delete() of the same record does not make a snapshot with its id
\* present again in the store or the cache.
C13_DeletedIsTerminal ==
    [][(last.op = "delete" /\ last.err = "ok" /\ last'.op = "save" /\ last'.id = last.id) =>
           /\ last.id \notin DOMAIN store'[ModelOf(last.id)]
           /\ last.id \notin DOMAIN cache'[ModelOf(last.id)]]_vars

\* C14: importing the file that export_json wrote into the emptied store of the
\* model, the other stores being as they were at the export, succeeds and leaves
\* in the store the identifiers and the snapshots it held at the export.
C14_ExportImportReproduces ==
    [][(/\ last'.op = "import"
        /\ json_file.complete
        /\ store[json_file.m] = <<>>
        /\ \A m \in ModelSet \ {json_file.m} : store[m] = json_file.at_export[m]) =>
           /\ last'.err = "ok"
           /\ store'[json_file.m] = json_file.at_export[json_file.m]]_vars

\* A listing with its first n elements dropped, and one capped to n elements.
Dropped(listing, n) == SubSeq(listing, n + 1, Len(listing))
Capped(listing, n) == SubSeq(listing, 1, IF n < Len(listing) THEN n ELSE Len(listing))

\* C15: for every offset O >= 0 and limit L >= 0, all(order_by, limit=L, offset=O)
\* is the full (optionally sorted) listing with the first O elements dropped and
\* then capped to L elements; it never has more than L elements.
C15_Pagination ==
    (last.op = "all" /\ last.kwargs.limit.ty = "int" /\ last.kwargs.offset.ty = "int") =>
        \E full \in {AllWith(World, last.id[1], last.kwargs.order_by, None, None)} :
            /\ last.err = full.err
            /\ full.err = "ok" =>
                  /\ last.val = Capped(Dropped(full.val, last.kwargs.offset.v),
                                       last.kwargs.limit.v)
                  /\ Len(last.val) <= last.kwargs.limit.v

\* The listing is in non-decreasing (reverse: non-increasing) order of field key.
InOrder(listing, key, reverse) ==
    \A i, j \in 1..Len(listing) :
        i < j => IF reverse THEN ~Less(listing[i].o.f[key], listing[j].o.f[key])
                            ELSE ~Less(listing[j].o.f[key], listing[i].o.f[key])

\* Two listings hold the same records, each once.
Permutation(a, b) ==
    /\ Len(a) = Len(b)
    /\ \A i \in 1..Len(a) : Cardinality({j \in 1..Len(b) : b[j] = a[i]}) = 1

\* C16: all(order_by="f") returns every record of the model in non-decreasing
\* order of f, all(order_by="-f") in non-increasing order; the result is a
\* permutation of the unsorted all().
C16_Sorting ==
    (last.op = "all" /\ last.kwargs.order_by.ty = "order"
        /\ IsNone(last.kwargs.limit) /\ IsNone(last.kwargs.offset)) =>
        /\ last.err = "ok"
        /\ Permutation(last.val, All(World, last.id[1]).val)
        /\ InOrder(last.val, last.kwargs.order_by.key, last.kwargs.order_by.reverse)

\* Value v is a parseable ISO-8601 string.
IsoString(v) == v.ty = "str" /\ FromIsoFormat(v.v) # 0

\* C19: a temporal field supplied as a parseable ISO-8601 string is accepted at
\* construction like the native value, and a following save() of that record
\* succeeds and writes a snapshot holding the field as ISO-8601 text.
C19_IsoStringSaved ==
    last.op \in {"construct", "save"} =>
        \A k \in 1..Len(Fields(ModelOf(last.id))) :
            LET name == Fields(ModelOf(last.id))[k][1]
            IN Fields(ModelOf(last.id))[k][2].kind = "Date" =>
                  /\ (last.op = "construct" /\ IsoString(last.kwargs[name])) =>
                        last.err = Construct(World, ModelOf(last.id), last.id,
                                             [last.kwargs EXCEPT ![name] =
                                                 Date(FromIsoFormat(@.v))]).err
                  /\ (last.op = "save" /\ last.id \in DOMAIN obj
                         /\ IsoString(obj[last.id].f[name])) =>
                        /\ last.err = "ok"
                        /\ last.id \in DOMAIN store[ModelOf(last.id)]
                        /\ store[ModelOf(last.id)][last.id].f[name] = obj[last.id].f[name]

\* The snapshot holds in field k what the condition k = v asks for: the id of the
\* record v in a ForeignKey field, a value equal to v in any other field.
SnapshotMatches(m, snapshot, k, v) ==
    IF Fields(m)[FieldOf(m, k)][2].kind = "FK" THEN snapshot.f[k] = IdStr(v.v)
    ELSE PyEq(snapshot.f[k], v)

\* C17: where(**conditions) returns exactly the persisted records of the model
\* that match every condition given, each once.
C17_WhereExact ==
    last.op = "where" =>
        /\ last.err = "ok"
        /\ {last.val[i].v : i \in 1..Len(last.val)} =
               {id \in DOMAIN store[last.id[1]] :
                    \A k \in DOMAIN last.kwargs :
                        SnapshotMatches(last.id[1], store[last.id[1]][id], k, last.kwargs[k])}
        /\ Cardinality({last.val[i].v : i \in 1..Len(last.val)}) = Len(last.val)

\* The persisted records of the declaring model that refer to x through field
\* fname: a ForeignKey holding x's id, a ManyToMany list holding x's id.
Referring(x, model, fname) ==
    {i \in DOMAIN store[model] :
        LET held == store[model][i].f[fname]
        IN IF Fields(model)[FieldOf(model, fname)][2].kind = "FK"
           THEN held = IdStr(x)
           ELSE held.ty = "list" /\ \E j \in 1..Len(held.v) : held.v[j] = IdStr(x)}

\* C18: a backref accessor called on record x returns exactly the currently
\* persisted records of the declaring model whose ForeignKey references x or whose
\* ManyToMany list contains x, with or without a cache.
C18_BackrefExact ==
    last.op = "related" =>
        /\ last.err = "ok"
        /\ {last.val[i].v : i \in 1..Len(last.val)} =
               Referring(last.id, last.kwargs.model, last.kwargs.fname)

\* The cache of model m in world w holds the ids the store of m holds, and the
\* snapshot of each cached record is the stored snapshot.
Coherent(w, m) ==
    /\ DOMAIN w.cache[m] = DOMAIN w.store[m]
    /\ \A id \in DOMAIN w.cache[m] :
           /\ ~ToDictRaises(m, CachedObj(w, id))
           /\ ToDict(m, CachedObj(w, id)) = w.store[m][id]

\* C20: after every completed save or delete, every model with an active cache
\* that the call was made on or whose store the call changed (a cascade) has a
\* coherent cache.
C20_CacheCoherent ==
    [][(last'.op \in {"save", "delete"} /\ last'.err = "ok") =>
           \A m \in ModelSet :
               (cache_on'[m] /\ (m = ModelOf(last'.id) \/ store'[m] # store[m])) =>
                   Coherent([store |-> store', cache |-> cache', obj |-> obj'], m)]_vars

\* The steps of the delete() call that the transition at hand makes.
DeleteLog == Delete(World, last'.id).w.log

\* C21: within one delete() of a persisted record t, every deletion of a cascade
\* child and every re-save of a many-to-many owner comes before the removal of t's
\* own entry, which is the last step.
C21_TargetRemovedLast ==
    [][(last'.op = "delete" /\ last'.err = "ok"
            /\ last'.id \in DOMAIN store[ModelOf(last'.id)]) =>
           /\ DeleteLog # <<>>
           /\ DeleteLog[Len(DeleteLog)] = [step |-> "remove", id |-> last'.id]
           /\ \A k \in 1..(Len(DeleteLog) - 1) : DeleteLog[k].id # last'.id
           /\ last'.id \notin DOMAIN store'[ModelOf(last'.id)]]_vars

\* A delete() that re-saved an owner and deleted a child before it removed its target.
C21_Witness ==
    /\ last.op = "delete"
    /\ last.err = "ok"
    /\ store["User"] = <<>>
    /\ store["Message"] = <<>>
    /\ \E g \in DOMAIN store["Group"] :
          g \in DOMAIN obj /\ obj[g].f.members.ty = "list" /\ Len(obj[g].f.members.v) > 0
             /\ store["Group"][g].f.members = List(<<>>)
    /\ \E m \in DOMAIN obj : ModelOf(m) = "Message" /\ obj[m].f.user.ty = "obj"

\* Every step of the log shows in the stores st: an entry written last is present,
\* an entry removed last is absent.
Applied(log, st) ==
    \A k \in 1..Len(log) :
        (\A j \in (k + 1)..Len(log) : log[j].id # log[k].id) =>
            (log[k].id \in DOMAIN st[ModelOf(log[k].id)]) = (log[k].step = "write")

\* C22: when a step of a delete() of a persisted record raises, the error reaches
\* the caller, what the call has already re-saved and deleted stays so (no
\* rollback), and the target's entry is still in its store, unchanged, and in its
\* cache if it was there.
C22_FailedDeleteKeepsTarget ==
    [][(last'.op = "delete" /\ Delete(World, last'.id).err # "ok"
            /\ last'.id \in DOMAIN store[ModelOf(last'.id)]) =>
           /\ last'.err = Delete(World, last'.id).err
           /\ Applied(DeleteLog, store')
           /\ \A m \in ModelSet : \A id \in DOMAIN store[m] :
                  (\A k \in 1..Len(DeleteLog) : DeleteLog[k].id # id) =>
                      id \in DOMAIN store'[m] /\ store'[m][id] = store[m][id]
           /\ \A k \in 1..Len(DeleteLog) : DeleteLog[k].id # last'.id
           /\ last'.id \in DOMAIN cache[ModelOf(last'.id)] =>
                  last'.id \in DOMAIN cache'[ModelOf(last'.id)]]_vars

\* A delete() of a persisted, cached user that raised after it had re-saved a group
\* without the user.
C22_Witness ==
    /\ last.op = "delete"
    /\ last.err # "ok"
    /\ last.id \in DOMAIN store["User"]
    /\ last.id \in DOMAIN cache["User"]
    /\ \E g \in DOMAIN store["Group"] :
          /\ store["Group"][g].f.members = List(<<>>)
          /\ g \in DOMAIN obj
          /\ obj[g].f.members = List(<<Ref(last.id)>>)

\* C23: a constructor call that supplies the AutoField value v keeps v and leaves
\* the counter at max(c, v), c being the counter as loaded from the counter file and
\* corrected by the scan of the stores; with v <= c the counter file is untouched.
C23_Watermark ==
    [][(last'.op = "construct" /\ last'.err = "ok"
            /\ ModelOf(last'.id) = "AllFixesModel"
            /\ last'.kwargs.auto_field.ty = "int") =>
           /\ obj'[last'.id].f.auto_field = last'.kwargs.auto_field
           /\ counter' = Max(InitializeCounter(World).counter, last'.kwargs.auto_field.v)
           /\ last'.kwargs.auto_field.v <= InitializeCounter(World).counter =>
                  counter_file' = counter_file]_vars

\* The records whose delete() the call of the transition at hand enters, itself
\* included.
DeleteCalls == Delete(World, last'.id).w.calls

\* C24: with the repository's schema, whose only cascading reference goes from a
\* message to a user, every delete() ends after finitely many recursive deletes: it
\* enters delete() at most once per record, and only on its target and on stored
\* records.
C24_DeleteTerminates ==
    [][last'.op = "delete" =>
           /\ DeleteCalls[1] = last'.id
           /\ \A j, k \in 1..Len(DeleteCalls) : DeleteCalls[j] = DeleteCalls[k] => j = k
           /\ \A k \in 2..Len(DeleteCalls) :
                  DeleteCalls[k] \in DOMAIN store[ModelOf(DeleteCalls[k])]]_vars

\* A delete() of a user that has deleted two messages.
C24_Witness ==
    /\ last.op = "delete"
    /\ last.err = "ok"
    /\ ModelOf(last.id) = "User"
    /\ store["Message"] = <<>>
    /\ Cardinality({m \in DOMAIN obj : ModelOf(m) = "Message"
                                          /\ obj[m].f.user = Ref(last.id)}) >= 2

\* The world with the cache of model m inactive (open(index=False)).
Inactive(m) == [World EXCEPT !.cache_on[m] = FALSE]

\* What a read hands out, as seen from outside: the error if it raises, otherwise
\* the identifier and the snapshot of each record.
Shown(m, e) == <<e.v, IF ToDictRaises(m, e.o) THEN <<>> ELSE ToDict(m, e.o)>>
SeenOne(m, r) ==
    IF r.err # "ok" THEN <<r.err>>
    ELSE IF r.val.ty # "obj" THEN <<>> ELSE <<Shown(m, r.val)>>
Seen(m, r) ==
    IF r.err # "ok" THEN <<r.err>>
    ELSE [k \in 1..Len(r.val) |-> Shown(m, r.val[k])]

\* C25: after a completed save or delete, all(), get_by_id(id) and where(user=u)
\* of a model whose cache is active return the identifiers and snapshots they
\* return with the cache inactive.
C25_CacheTransparent ==
    (last.op \in {"save", "delete"} /\ last.err = "ok") =>
        \A m \in {"User", "Message"} :
            cache_on[m] =>
                /\ Seen(m, All(World, m)) = Seen(m, All(Inactive(m), m))
                /\ \A id \in IdsOf(m, RelUsers) :
                       SeenOne(m, GetById(World, id)) = SeenOne(m, GetById(Inactive(m), id))
                /\ m = "Message" =>
                       \A u \in IdsOf("User", RelUsers) :
                           Seen(m, WhereAll(World, m, [user |-> Ref(u)])) =
                               Seen(m, WhereAll(Inactive(m), m, [user |-> Ref(u)]))

\* The world with every cache inactive.
Uncached == [World EXCEPT !.cache_on = [m \in ModelSet |-> FALSE]]

\* C26: whatever the application has constructed, saved and deleted, all() without
\* a cache returns, on every model, one record per stored snapshot and does not
\* raise.
C26_StoresReadable ==
    \A m \in {"User", "Group", "Message"} :
        /\ All(Uncached, m).err = "ok"
        /\ Len(All(Uncached, m).val) = Cardinality(DOMAIN store[m])

\* The stored snapshot names record x in a foreign key or in a member list.
References(m, snapshot, x) ==
    \E k \in 1..Len(Fields(m)) :
        LET val == snapshot.f[Fields(m)[k][1]]
        IN \/ Fields(m)[k][2].kind = "FK" /\ val = IdStr(x)
           \/ Fields(m)[k][2].kind = "M2M" /\ val.ty = "list"
                  /\ \E j \in 1..Len(val.v) : val.v[j] = IdStr(x)

\* C27: delete() of a record x leaves every stored snapshot of another record that
\* does not refer to x as it was.
C27_DeleteFrame ==
    [][last'.op = "delete" =>
           \A m \in ModelSet : \A id \in DOMAIN store[m] :
               (id # last'.id /\ ~References(m, store[m][id], last'.id)) =>
                   /\ id \in DOMAIN store'[m]
                   /\ store'[m][id] = store[m][id]]_vars

\* C28: an import_json that directly follows a completed import_json of the same
\* file raises nothing and leaves the store of the model, identifiers and
\* snapshots, as the first import left it.
C28_ImportIdempotent ==
    [][(last'.op = "import" /\ last'.kwargs.again) =>
           /\ last'.err = "ok"
           /\ store' = store]_vars

\* A second import of a file with two rows that carry different unique names.
C28_Witness ==
    /\ last.op = "import"
    /\ last.kwargs.again
    /\ last.err = "ok"
    /\ Len(json_file.rows) = 2
    /\ json_file.rows[1].f.name # json_file.rows[2].f.name
    /\ DOMAIN store["AllFixesModel"] = {json_file.rows[1].id, json_file.rows[2].id}


============================================================================
